---------------------------- MODULE Spec2Model ----------------------------
(***************************************************************************)
(* Model of src/preferencias.py, the Streamlit schedule builder            *)
(* ("Montador de Grade Horaria").                                          *)
(*                                                                         *)
(* The script is re-executed from top to bottom on every user interaction. *)
(* One action of the model is one such execution, triggered by exactly one *)
(* widget; st.session_state is what survives between executions.           *)
(*                                                                         *)
(* Times of day are minutes since 00:00 (08:00 = 480); a dataframe is the  *)
(* sequence of its index labels into df_base, in row order; the index      *)
(* label of a row also stands for its ROW_ID.  Accented identifiers are    *)
(* written without accents ("Manha" for "Manhã").                          *)
(***************************************************************************)
EXTENDS Integers, Sequences, FiniteSets, TLC

VARIABLES
    df_base,                  \* the uploaded offer table, with derived columns
    current_step,             \* st.session_state["current_step"]
    selecionados_ids,         \* st.session_state["selecionados_ids"]
    fixos_ids,                \* st.session_state["fixos_ids"]
    confirmado,               \* st.session_state["confirmado"]
    mapa_grupos_fixas,        \* st.session_state["mapa_grupos_fixas"]
    singles_sao_obrigatorias, \* st.session_state["singles_sao_obrigatorias"]
    widgets,                  \* values held by the other Step 3 widgets: alvo_num_disciplinas,
                              \* alvo_qtd_dias, turnos_pref, combinar_grupos_juntos
    relatorio,                \* Step 2 conflict report shown by the last execution
    execucao                  \* what "Gerar combinacoes" computed and showed in the last execution

vars == <<df_base, current_step, selecionados_ids, fixos_ids, confirmado,
          mapa_grupos_fixas, singles_sao_obrigatorias, widgets, relatorio, execucao>>

(***************************************************************************)
(* Bounds of the model.                                                    *)
(***************************************************************************)
\* Scaled stand-in for MAX_COMBINACOES = 100000 (line 26): small enough for
\* the pools of the model to reach it, large enough for pools that do not.
MAX_COMBINACOES == 5
\* Largest "Numero de disciplinas" entered (the widget allows 0..12).
MaxAlvo == 3

(***************************************************************************)
(* Constants of the program.                                               *)
(***************************************************************************)
\* The radio option "Qualquer" of "Dias totais na semana"; the other options
\* are the integers 2, 3, 4.
Qualquer == 0
OpcoesQtdDias == {Qualquer, 2, 3, 4}

TURNOS == << [nome |-> "Manha", inicio |-> 420,  fim |-> 720],
             [nome |-> "Tarde", inicio |-> 721,  fim |-> 1080],
             [nome |-> "Noite", inicio |-> 1081, fim |-> 1380] >>

grupos_rotulos == <<"Sem grupo", "Grupo A", "Grupo B", "Grupo C">>

\* A missing CSV cell (pandas NaN).
NaN == "NaN"

(***************************************************************************)
(* Sequence helpers (Python built-ins and itertools).                      *)
(***************************************************************************)
Range(s) == {s[i] : i \in DOMAIN s}

Min(a, b) == IF a <= b THEN a ELSE b
Max(a, b) == IF a >= b THEN a ELSE b

\* range(a, b)
range(a, b) == [i \in 1..Max(0, b - a) |-> a + i - 1]

\* sorted(S) for a set of integers
RECURSIVE sorted(_)
sorted(S) ==
    IF S = {} THEN <<>>
    ELSE LET m == CHOOSE x \in S : \A y \in S : x <= y
         IN  <<m>> \o sorted(S \ {m})

RECURSIVE SumSeq(_)
SumSeq(s) == IF s = <<>> THEN 0 ELSE Head(s) + SumSeq(Tail(s))

\* itertools.combinations(s, r): the r-length subsequences of s, in
\* lexicographic order of positions.
RECURSIVE combinations(_, _)
combinations(s, r) ==
    IF r = 0 THEN << <<>> >>
    ELSE IF Len(s) < r THEN <<>>
    ELSE LET com   == combinations(Tail(s), r - 1)
             sem   == combinations(Tail(s), r)
         IN  [i \in 1..Len(com) |-> <<Head(s)>> \o com[i]] \o sem

(***************************************************************************)
(* Loading: derived columns of a row.                                      *)
(***************************************************************************)
\* get_turno: the first shift whose clock range contains the start time.
RECURSIVE get_turno_de(_, _)
get_turno_de(horario, i) ==
    IF i > Len(TURNOS) THEN "Indefinido"
    ELSE IF TURNOS[i].inicio <= horario.inicio /\ horario.inicio <= TURNOS[i].fim
         THEN TURNOS[i].nome
         ELSE get_turno_de(horario, i + 1)

get_turno(horario) == get_turno_de(horario, 1)

\* df['TURNOS'] and df['DIAS'] of carregar_disciplinas.
ColTURNOS(hs) == {get_turno(hs[i]) : i \in DOMAIN hs}
ColDIAS(hs)   == {hs[i].dia : i \in DOMAIN hs}

\* One loaded row: the CSV cells, the parsed intervals and the derived columns.
Linha(curso, disciplina, turma, hs) ==
    [CURSO |-> curso, DISCIPLINA |-> disciplina, TURMA |-> turma,
     horarios_obj |-> hs, TURNOS |-> ColTURNOS(hs), DIAS |-> ColDIAS(hs)]

H(dia, inicio, fim) == [dia |-> dia, inicio |-> inicio, fim |-> fim]

(***************************************************************************)
(* The offer tables used.  Rows without a valid interval never reach       *)
(* df_base (line 188), so every row has at least one.                      *)
(***************************************************************************)
\* Two offers.  Row 1 has two overlapping intervals of its own on Monday
\* (11:00-13:00 and 12:30-14:00).
TabelaFluxo ==
    << Linha("CC", "Calculo",  "T1", <<H("Segunda-feira", 660, 780), H("Segunda-feira", 750, 840)>>),
       Linha("CC", "Fisica",   "T1", <<H("Terca-feira", 480, 600),   H("Quarta-feira", 840, 960)>>) >>

\* Four offers.  Rows 1 and 2 are two classes of one course; rows 1 and 3 are
\* back to back on Monday; rows 1 and 4 overlap on Tuesday.
TabelaMotor ==
    << Linha("CC", "Calculo",  "T1", <<H("Segunda-feira", 480, 600), H("Terca-feira", 840, 960)>>),
       Linha("CC", "Calculo",  "T2", <<H("Quarta-feira", 480, 600),  H("Quinta-feira", 840, 960)>>),
       Linha("CC", "Fisica",   "T1", <<H("Segunda-feira", 600, 720), H("Sexta-feira", 780, 900)>>),
       Linha(NaN,  "Historia", "T1", <<H("Terca-feira", 900, 1020)>>) >>

\* Three offers.  Rows 1 and 2 are two classes of one course whose CURSO
\* cell is empty in the CSV; they do not overlap and cover Manha and Tarde.
\* Row 3 is a morning-only offer.
TabelaPontuacao ==
    << Linha(NaN,  "Historia", "T1", <<H("Terca-feira", 900, 1020)>>),
       Linha(NaN,  "Historia", "T2", <<H("Quarta-feira", 480, 600),  H("Quinta-feira", 840, 960)>>),
       Linha("CC", "Calculo",  "T1", <<H("Segunda-feira", 480, 600)>>) >>

(***************************************************************************)
(* Conflict detection, lines 229-275.                                      *)
(***************************************************************************)
\* The flattened intervals of a dataframe, each tagged with its row's
\* DISCIPLINA and TURMA, in row order (lines 245-257).
RECURSIVE todos_horarios(_)
todos_horarios(df) ==
    IF df = <<>> THEN <<>>
    ELSE LET disc == df_base[Head(df)]
             hs   == disc.horarios_obj
         IN  [i \in 1..Len(hs) |->
                 [disciplina |-> disc.DISCIPLINA, turma |-> disc.TURMA,
                  dia |-> hs[i].dia, inicio |-> hs[i].inicio, fim |-> hs[i].fim]]
             \o todos_horarios(Tail(df))

\* Variant of Sobrepoe with closed comparisons, for which two intervals that
\* only touch overlap.  C13 is sensitive to it.
Sobrepoe_fechado(h1, h2) ==
    /\ h1.dia = h2.dia
    /\ h1.inicio <= h2.fim
    /\ h2.inicio <= h1.fim

\* The test applied to a pair of flattened intervals (lines 260-262).
Sobrepoe(h1, h2) ==
    /\ h1.dia = h2.dia
    /\ h1.inicio < h2.fim
    /\ h2.inicio < h1.fim

\* The record appended for an overlapping pair (lines 263-273); the times
\* are kept as minutes where the code formats them as HH:MM.
RegistroConflito(h1, h2) ==
    <<h1.disciplina, h1.inicio, h2.disciplina, h2.inicio, h1.dia,
      h1.fim, h2.fim, h1.turma, h2.turma>>

\* The early return of line 240: the dataframe is empty or has fewer than
\* two rows.
PoucasLinhas(df) == Len(df) < 2

check_conflito(df) ==
    IF PoucasLinhas(df)
    THEN [tem_conflito |-> FALSE, conflitos |-> <<>>]
    ELSE LET pares == combinations(todos_horarios(df), 2)
             achados == SelectSeq(pares, LAMBDA p : Sobrepoe(p[1], p[2]))
             conflitos == [i \in 1..Len(achados) |->
                              RegistroConflito(achados[i][1], achados[i][2])]
         IN  [tem_conflito |-> Len(conflitos) > 0, conflitos |-> conflitos]

(***************************************************************************)
(* Derived facts of a combination, lines 285-325.                          *)
(***************************************************************************)
dias_totais_da_grade(df_grade) ==
    Cardinality(UNION {df_base[df_grade[i]].DIAS : i \in DOMAIN df_grade})

turnos_da_grade(df_grade) ==
    UNION {{t \in df_base[df_grade[i]].TURNOS : t /= ""} : i \in DOMAIN df_grade}

is_turno_set_permitido(turnos_set) ==
    turnos_set \in {{"Manha", "Tarde"}, {"Tarde", "Noite"}}

\* groupby(['CURSO','DISCIPLINA'])['TURMA'].nunique(), then the sum of
\* (count - 1) over the groups with more than one class label (lines
\* 305-309).  groupby drops the rows whose key has a missing cell, and
\* nunique does not count a missing TURMA.
ExtrasMesmaDisciplina(df_grade) ==
    LET noGrupo(i) == /\ df_base[df_grade[i]].CURSO /= NaN
                      /\ df_base[df_grade[i]].DISCIPLINA /= NaN
        chave(i)   == <<df_base[df_grade[i]].CURSO, df_base[df_grade[i]].DISCIPLINA>>
        membros(i) == {j \in DOMAIN df_grade : noGrupo(j) /\ chave(j) = chave(i)}
        nunique(i) == Cardinality({df_base[df_grade[j]].TURMA : j \in membros(i)} \ {NaN})
        primeiro(i) == noGrupo(i) /\ \A j \in membros(i) : i <= j
    IN  SumSeq([i \in DOMAIN df_grade |->
                  IF primeiro(i) /\ nunique(i) > 1 THEN nunique(i) - 1 ELSE 0])

\* Variant of BonusDias that compares the target with the number of rows
\* of the combination instead of its days.  C19 is sensitive to it.
BonusDias_por_linhas(df_grade, alvo_qtd_dias) ==
    IF alvo_qtd_dias \in {2, 3, 4} /\ Len(df_grade) = alvo_qtd_dias
    THEN 2 ELSE 0

\* The +2 of lines 302-304.
BonusDias(df_grade, alvo_qtd_dias) ==
    IF alvo_qtd_dias \in {2, 3, 4} /\ dias_totais_da_grade(df_grade) = alvo_qtd_dias
    THEN 2 ELSE 0

\* The +1 per row of lines 297-301.
PontosTurnos(df_grade, turnos_pref) ==
    IF turnos_pref /= {}
    THEN Cardinality({i \in DOMAIN df_grade :
                        df_base[df_grade[i]].TURNOS \cap turnos_pref /= {}})
    ELSE 0

score_combo(df_grade, turnos_pref, alvo_qtd_dias) ==
    PontosTurnos(df_grade, turnos_pref)
    + BonusDias(df_grade, alvo_qtd_dias)
    + ExtrasMesmaDisciplina(df_grade)

(***************************************************************************)
(* Validation of a combination, lines 673-685.                             *)
(***************************************************************************)
\* Variant of combo_ok without the day-count rule of lines 678-680.  C14 is
\* sensitive to it.
combo_ok_sem_dias(df_combo, alvo_qtd_dias) ==
    IF check_conflito(df_combo).tem_conflito THEN FALSE
    ELSE IF ~is_turno_set_permitido(turnos_da_grade(df_combo)) THEN FALSE
    ELSE TRUE

combo_ok(df_combo, alvo_qtd_dias) ==
    IF check_conflito(df_combo).tem_conflito THEN FALSE
    ELSE IF alvo_qtd_dias \in {2, 3, 4}
            /\ dias_totais_da_grade(df_combo) /= alvo_qtd_dias THEN FALSE
    ELSE IF ~is_turno_set_permitido(turnos_da_grade(df_combo)) THEN FALSE
    ELSE TRUE

(***************************************************************************)
(* Scenario construction, lines 640-670.                                   *)
(***************************************************************************)
NomesGrupos == <<"Grupo A", "Grupo B", "Grupo C">>

\* Variant of Grupo that never fills a bucket: the scenario builder without
\* line 645.  C15 is sensitive to it.
Grupo_vazio(fixed_ids_set, mapa, g) == {}

\* grupos[g]: the keys of mapa_grupos_fixas labelled g (lines 640-647).
Grupo(fixed_ids_set, mapa, g) ==
    IF fixed_ids_set /= {} THEN {rid \in DOMAIN mapa : mapa[rid] = g} ELSE {}

\* Variant of Singles that collects nothing: the scenario builder without
\* the else branch of line 647.  C3 is sensitive to it.
Singles_ignoradas(fixed_ids_set, mapa) == {}

\* singles: the keys with any other label.
Singles(fixed_ids_set, mapa) ==
    IF fixed_ids_set /= {}
    THEN {rid \in DOMAIN mapa : mapa[rid] \notin Range(NomesGrupos)}
    ELSE {}

\* cenarios: the list of required sets (lines 650-670).
Cenarios(fixed_ids_set, mapa, combinar_grupos_juntos, singles_obrig) ==
    LET grupos_nao_vazios ==
            SelectSeq(NomesGrupos, LAMBDA g : Grupo(fixed_ids_set, mapa, g) /= {})
        singles == Singles(fixed_ids_set, mapa)
        maisSingles(obrig) == IF singles_obrig THEN obrig \cup singles ELSE obrig
    IN  IF fixed_ids_set /= {}
        THEN IF combinar_grupos_juntos
             THEN << maisSingles(UNION {Grupo(fixed_ids_set, mapa, grupos_nao_vazios[i]) :
                                           i \in DOMAIN grupos_nao_vazios}) >>
             ELSE IF grupos_nao_vazios /= <<>>
                  THEN [i \in DOMAIN grupos_nao_vazios |->
                           maisSingles(Grupo(fixed_ids_set, mapa, grupos_nao_vazios[i]))]
                  ELSE << IF singles_obrig THEN singles ELSE {} >>
        ELSE << {} >>

(***************************************************************************)
(* Enumeration of one scenario, lines 693-763.                             *)
(***************************************************************************)
\* Variant of AtingiuLimite with a strict comparison, which lets one
\* combination past the cap.  C8 is sensitive to it.
AtingiuLimite_estrito(combinacoes_geradas) == combinacoes_geradas > MAX_COMBINACOES

\* The break test of lines 730, 739 and 741.
AtingiuLimite(combinacoes_geradas) == combinacoes_geradas >= MAX_COMBINACOES

\* Variant of Tamanhos that always takes the range of line 716, whatever
\* the target.  C6 is sensitive to it.
Tamanhos_faixa(alvo_num_disciplinas, obrig_idx, indices) ==
    range(Max(1, Cardinality(obrig_idx)), Len(indices) + 1)

\* tamanhos, lines 715-718.
Tamanhos(alvo_num_disciplinas, obrig_idx, indices) ==
    IF alvo_num_disciplinas = 0
    THEN range(Max(1, Cardinality(obrig_idx)), Len(indices) + 1)
    ELSE <<alvo_num_disciplinas>>

\* One pass of a loop body (lines 725-729 and 734-738): build the
\* combination, validate it, count it.  "geradas" lists the combinations
\* built so far; the code keeps only their count.
Acumula(acc, combo_idx, alvo_qtd_dias) ==
    [geradas |-> Append(acc.geradas, combo_idx),
     todas_validas |-> IF combo_ok(combo_idx, alvo_qtd_dias)
                       THEN Append(acc.todas_validas, combo_idx)
                       ELSE acc.todas_validas,
     combinacoes_geradas |-> acc.combinacoes_geradas + 1]

\* for extra in _comb(resto, k - len(obrig_idx)), lines 733-740.
RECURSIVE LacoExtras(_, _, _, _, _)
LacoExtras(extras, i, obrig_idx, acc, alvo_qtd_dias) ==
    IF i > Len(extras) THEN acc
    ELSE LET a1 == Acumula(acc, sorted(obrig_idx) \o extras[i], alvo_qtd_dias)
         IN  IF AtingiuLimite(a1.combinacoes_geradas) THEN a1
             ELSE LacoExtras(extras, i + 1, obrig_idx, a1, alvo_qtd_dias)

\* for k in tamanhos, lines 720-742.
RECURSIVE LacoTamanhos(_, _, _, _, _, _)
LacoTamanhos(tamanhos, j, obrig_idx, resto, acc, alvo_qtd_dias) ==
    IF j > Len(tamanhos) THEN acc
    ELSE LET k == tamanhos[j]
         IN  IF k < Cardinality(obrig_idx)
             THEN LacoTamanhos(tamanhos, j + 1, obrig_idx, resto, acc, alvo_qtd_dias)
             ELSE LET a1 == IF Cardinality(obrig_idx) = k
                            THEN Acumula(acc, sorted(obrig_idx), alvo_qtd_dias)
                            ELSE LacoExtras(combinations(resto, k - Cardinality(obrig_idx)),
                                            1, obrig_idx, acc, alvo_qtd_dias)
                  IN  IF AtingiuLimite(a1.combinacoes_geradas) THEN a1
                      ELSE LacoTamanhos(tamanhos, j + 1, obrig_idx, resto, a1, alvo_qtd_dias)

\* Variant of InsereOrdenado that places an item before the items of equal
\* key, as a sort that is not stable would.  C10 is sensitive to it.
RECURSIVE InsereOrdenado_instavel(_, _)
InsereOrdenado_instavel(lista, item) ==
    IF lista = <<>> THEN <<item>>
    ELSE IF Head(lista).chave > item.chave
         THEN <<Head(lista)>> \o InsereOrdenado_instavel(Tail(lista), item)
         ELSE <<item>> \o lista

\* sorted(..., key=..., reverse=True), lines 745-753: Python's sort is
\* stable, also with reverse=True.  Each item carries its key; an item is
\* placed after every item whose key is not smaller.
RECURSIVE InsereOrdenado(_, _)
InsereOrdenado(lista, item) ==
    IF lista = <<>> THEN <<item>>
    ELSE IF Head(lista).chave >= item.chave
         THEN <<Head(lista)>> \o InsereOrdenado(Tail(lista), item)
         ELSE <<item>> \o lista

RECURSIVE OrdenaDe(_, _, _)
OrdenaDe(lista, i, acc) ==
    IF i > Len(lista) THEN acc
    ELSE OrdenaDe(lista, i + 1, InsereOrdenado(acc, lista[i]))

todas_validas_sorted(todas_validas, turnos_pref, alvo_qtd_dias) ==
    LET comChave == [i \in DOMAIN todas_validas |->
                        [chave |-> score_combo(todas_validas[i], turnos_pref, alvo_qtd_dias),
                         valor |-> todas_validas[i]]]
        ordenada == OrdenaDe(comChave, 1, <<>>)
    IN  [i \in DOMAIN ordenada |-> ordenada[i].valor]

\* sugestoes = todas_validas_sorted[:4], line 763.
Sugestoes(validas_sorted) == SubSeq(validas_sorted, 1, Min(4, Len(validas_sorted)))

\* What the scenario reports about its list, lines 757-760.
Mensagem(validas_sorted) ==
    IF validas_sorted = <<>>
    THEN [tipo |-> "info", validas |-> 0, limite |-> 0]
    ELSE [tipo |-> "success", validas |-> Len(validas_sorted), limite |-> MAX_COMBINACOES]

\* obrig_idx, line 702: the required ids that are rows of base_df.
ObrigIdx(obrig_rids, base_df) == {r \in obrig_rids : r \in Range(base_df)}

\* The size-conflict guard of line 707.
AlvoMenorQueObrigatorias(alvo_num_disciplinas, obrig_idx) ==
    alvo_num_disciplinas > 0 /\ Cardinality(obrig_idx) > alvo_num_disciplinas

\* The body of the scenario loop for one scenario.
ProcessaCenario(obrig_rids, base_df, alvo_num_disciplinas, alvo_qtd_dias, turnos_pref) ==
    LET obrig_idx == ObrigIdx(obrig_rids, base_df)
        indices   == base_df
        resto     == SelectSeq(indices, LAMBDA i : i \notin obrig_idx)
    IN  IF AlvoMenorQueObrigatorias(alvo_num_disciplinas, obrig_idx)
        THEN [obrig_rids |-> obrig_rids, obrig_idx |-> obrig_idx,
              geradas |-> <<>>, todas_validas |-> <<>>, combinacoes_geradas |-> 0,
              todas_validas_sorted |-> <<>>, sugestoes |-> <<>>,
              mensagem |-> [tipo |-> "warning", validas |-> 0, limite |-> 0]]
        ELSE LET laco == LacoTamanhos(Tamanhos(alvo_num_disciplinas, obrig_idx, indices), 1,
                                      obrig_idx, resto,
                                      [geradas |-> <<>>, todas_validas |-> <<>>,
                                       combinacoes_geradas |-> 0],
                                      alvo_qtd_dias)
                 ordenadas == todas_validas_sorted(laco.todas_validas, turnos_pref, alvo_qtd_dias)
             IN  [obrig_rids |-> obrig_rids, obrig_idx |-> obrig_idx,
                  geradas |-> laco.geradas, todas_validas |-> laco.todas_validas,
                  combinacoes_geradas |-> laco.combinacoes_geradas,
                  todas_validas_sorted |-> ordenadas, sugestoes |-> Sugestoes(ordenadas),
                  mensagem |-> Mensagem(ordenadas)]

\* for idx_cen, obrig_rids in enumerate(cenarios, start=1), line 693.
LacoCenarios(cenarios, base_df, alvo_num_disciplinas, alvo_qtd_dias, turnos_pref) ==
    [idx_cen \in DOMAIN cenarios |->
        ProcessaCenario(cenarios[idx_cen], base_df, alvo_num_disciplinas,
                        alvo_qtd_dias, turnos_pref)]

(***************************************************************************)
(* The session and the script.  An operator below is one stretch of the    *)
(* script applied to the session "ss" it finds; an execution runs the      *)
(* stretches in the order of the file.                                     *)
(***************************************************************************)
Ids == 1..Len(df_base)

Sessao ==
    [current_step |-> current_step, selecionados_ids |-> selecionados_ids,
     fixos_ids |-> fixos_ids, confirmado |-> confirmado,
     mapa_grupos_fixas |-> mapa_grupos_fixas,
     singles_sao_obrigatorias |-> singles_sao_obrigatorias]

\* Lines 30-52.
SessaoInicial ==
    [current_step |-> 1, selecionados_ids |-> {}, fixos_ids |-> {},
     confirmado |-> FALSE, mapa_grupos_fixas |-> <<>>,
     singles_sao_obrigatorias |-> FALSE]

\* Variant of ensure_fixed_subset_of_selected that leaves fixos_ids as it
\* finds it.  C16 is sensitive to it.
ensure_sem_efeito(ss) == ss

\* _ensure_fixed_subset_of_selected, lines 54-56.
ensure_fixed_subset_of_selected(ss) ==
    [ss EXCEPT !.fixos_ids = ss.fixos_ids \cap ss.selecionados_ids]

\* _go_to_step, lines 58-59.
go_to_step(ss, step) == [ss EXCEPT !.current_step = step]

\* selecionadas_full, lines 503-504: the rows of df_base whose ROW_ID is
\* selected, in row order.
selecionadas_full(ss) == SelectSeq(range(1, Len(df_base) + 1),
                                   LAMBDA i : i \in ss.selecionados_ids)

\* "Aplicar selecao", lines 488-499.
AplicaSelecao(ss, current_visible_ids, selected_in_view_ids) ==
    [ss EXCEPT !.selecionados_ids =
        (ss.selecionados_ids \ current_visible_ids) \cup selected_in_view_ids]

\* "Proxima etapa (revisar e fixar)", lines 511-514.
ProximaEtapaClique(ss) ==
    go_to_step([ensure_fixed_subset_of_selected(ss) EXCEPT !.confirmado = FALSE], 2)

\* "Reiniciar fluxo", lines 516-523.
ReiniciarClique(ss) ==
    go_to_step([ss EXCEPT !.selecionados_ids = {}, !.fixos_ids = {},
                          !.confirmado = FALSE, !.mapa_grupos_fixas = <<>>,
                          !.singles_sao_obrigatorias = FALSE], 1)

\* The head of the Step 2 block, lines 526-542: the 'Fixar' checkboxes.  A
\* checkbox shows whether its row is fixed, except the one the user has just
\* clicked ("clicado", 0 when none was), which shows the opposite.
Etapa2Fixar(ss, clicado) ==
    IF ss.current_step /= 2 THEN ss
    ELSE LET s1 == ensure_fixed_subset_of_selected(ss)
             linhas == Range(selecionadas_full(s1))
             novo_valor(rid) == (rid \in s1.fixos_ids) /= (rid = clicado)
         IN  [s1 EXCEPT !.fixos_ids =
                 (s1.fixos_ids \ linhas) \cup {rid \in linhas : novo_valor(rid)}]

\* The conflict report of the Step 2 block, lines 545-552.
NaoMostrado == [mostrado |-> FALSE, tem_conflito |-> FALSE, conflitos |-> <<>>]

RelatorioEtapa2(ss) ==
    IF ss.current_step = 2 /\ selecionadas_full(ss) /= <<>>
    THEN LET r == check_conflito(selecionadas_full(ss))
         IN  [mostrado |-> TRUE, tem_conflito |-> r.tem_conflito, conflitos |-> r.conflitos]
    ELSE NaoMostrado

\* Variant of ConfirmarClique that does not record the confirmation (line
\* 562 left out).  C17 is sensitive to it.
ConfirmarClique_sem_confirmado(ss) ==
    LET s1   == ensure_fixed_subset_of_selected(ss)
        mapa == [rid \in s1.fixos_ids |-> "Sem grupo"]
    IN  go_to_step([s1 EXCEPT !.mapa_grupos_fixas = mapa,
                              !.singles_sao_obrigatorias =
                                  (Cardinality({rid \in DOMAIN mapa : mapa[rid] = "Sem grupo"}) = 1)],
                   3)

\* "Confirmar e ir para agrupamento (Etapa 3)", lines 560-570.
ConfirmarClique(ss) ==
    LET s1   == ensure_fixed_subset_of_selected(ss)
        mapa == [rid \in s1.fixos_ids |-> "Sem grupo"]
    IN  go_to_step([s1 EXCEPT !.confirmado = TRUE,
                              !.mapa_grupos_fixas = mapa,
                              !.singles_sao_obrigatorias =
                                  (Cardinality({rid \in DOMAIN mapa : mapa[rid] = "Sem grupo"}) = 1)],
                   3)

\* Whether the Step 3 block runs, line 573.
Etapa3Visivel(ss) == ss.current_step >= 3 /\ ss.confirmado

\* fixed_ids_set, line 595: read before line 596 prunes fixos_ids.
FixedIdsSet(ss) == ss.fixos_ids

\* df_fixas, lines 601-605.
DfFixas(ss) == SelectSeq(selecionadas_full(ss), LAMBDA i : i \in FixedIdsSet(ss))

\* The Step 3 block up to the toggles, lines 595-633.  Every select box
\* shown stores its value under its row; the box shows the stored label
\* ("Sem grupo" when none is stored) unless the user has just chosen
\* "rotulo" in the box of row "rid_escolhido" (0 when none was).  The
\* 'singles' toggle stores its value, flipped when "alternar".
Etapa3Grupos(ss, rid_escolhido, rotulo, alternar) ==
    IF ~Etapa3Visivel(ss) THEN ss
    ELSE LET s1 == ensure_fixed_subset_of_selected(ss)
             mostradas == Range(DfFixas(ss))
             default_group(rid) == IF rid \in DOMAIN ss.mapa_grupos_fixas
                                   THEN ss.mapa_grupos_fixas[rid] ELSE "Sem grupo"
             valor(rid) == IF rid = rid_escolhido THEN rotulo ELSE default_group(rid)
         IN  [s1 EXCEPT !.mapa_grupos_fixas =
                            [rid \in (DOMAIN ss.mapa_grupos_fixas) \cup mostradas |->
                                IF rid \in mostradas THEN valor(rid)
                                ELSE ss.mapa_grupos_fixas[rid]],
                        !.singles_sao_obrigatorias =
                            (ss.singles_sao_obrigatorias /= alternar)]

\* "Gerar combinacoes", lines 638-785, on the session "antes" the Step 3
\* block found and the session "ss" it left.
SemExecucao == [gerou |-> FALSE]

GerarClique(antes, ss, alvo_num_disciplinas, alvo_qtd_dias, turnos_pref, combinar_grupos_juntos) ==
    LET fixed_ids_set == FixedIdsSet(antes)
        base_df  == selecionadas_full(ss)
        cenarios == Cenarios(fixed_ids_set, ss.mapa_grupos_fixas,
                             combinar_grupos_juntos, ss.singles_sao_obrigatorias)
    IN  [gerou |-> TRUE,
         alvo_num_disciplinas |-> alvo_num_disciplinas,
         alvo_qtd_dias |-> alvo_qtd_dias,
         turnos_pref |-> turnos_pref,
         combinar_grupos_juntos |-> combinar_grupos_juntos,
         fixed_ids_set |-> fixed_ids_set,
         base_df |-> base_df,
         cenarios |-> cenarios,
         resultados |-> LacoCenarios(cenarios, base_df, alvo_num_disciplinas,
                                     alvo_qtd_dias, turnos_pref)]

\* What the Step 3 widgets hold when first drawn (lines 579-591, 626).
WidgetsPadrao ==
    [alvo_num_disciplinas |-> 0, alvo_qtd_dias |-> Qualquer,
     turnos_pref |-> {}, combinar_grupos_juntos |-> FALSE]

\* The session and the widget values an execution leaves.  A widget keeps
\* its value from one execution to the next while it is drawn; one that is
\* not drawn starts again from its default.
Grava(ss, w) ==
    /\ current_step' = ss.current_step
    /\ selecionados_ids' = ss.selecionados_ids
    /\ fixos_ids' = ss.fixos_ids
    /\ confirmado' = ss.confirmado
    /\ mapa_grupos_fixas' = ss.mapa_grupos_fixas
    /\ singles_sao_obrigatorias' = ss.singles_sao_obrigatorias
    /\ widgets' = IF Etapa3Visivel(ss) THEN w ELSE WidgetsPadrao

\* The rest of an execution in which no widget of Steps 2 and 3 was used.
\* st.rerun() (lines 457, 463, 523) abandons the execution and starts one
\* in which no widget was used: the same stretches, on the session as the
\* button left it.
SemClique(ss) ==
    /\ Grava(Etapa3Grupos(Etapa2Fixar(ss, 0), 0, "Sem grupo", FALSE), widgets)
    /\ relatorio' = RelatorioEtapa2(Etapa2Fixar(ss, 0))
    /\ execucao' = SemExecucao
    /\ UNCHANGED df_base

(***************************************************************************)
(* Actions: one execution of the script each.                              *)
(***************************************************************************)
\* "Selecionar todos (visiveis)", lines 453-457; the sidebar filters decide
\* which rows are visible.
SelecionarTodosVisiveis(current_visible_ids) ==
    SemClique([Sessao EXCEPT !.selecionados_ids = selecionados_ids \cup current_visible_ids])

\* "Limpar selecao (visiveis)", lines 459-463.
LimparSelecaoVisiveis(current_visible_ids) ==
    SemClique([Sessao EXCEPT !.selecionados_ids = selecionados_ids \ current_visible_ids])

\* The form's "Aplicar selecao" with the editor not empty, lines 485-500.
AplicarSelecao(current_visible_ids, selected_in_view_ids) ==
    /\ current_visible_ids /= {}
    /\ SemClique(AplicaSelecao(Sessao, current_visible_ids, selected_in_view_ids))

\* "Proxima etapa (revisar e fixar)", disabled while nothing is selected.
ProximaEtapa ==
    /\ selecionadas_full(Sessao) /= <<>>
    /\ SemClique(ProximaEtapaClique(Sessao))

\* "Reiniciar fluxo" of Step 1.
ReiniciarFluxo ==
    /\ TRUE
    /\ SemClique(ReiniciarClique(Sessao))

\* A click on the 'Fixar' checkbox of a selected row, in Step 2.
Fixar(rid) ==
    /\ current_step = 2
    /\ rid \in Range(selecionadas_full(Sessao))
    /\ Grava(Etapa3Grupos(Etapa2Fixar(Sessao, rid), 0, "Sem grupo", FALSE), widgets)
    /\ relatorio' = RelatorioEtapa2(Etapa2Fixar(Sessao, rid))
    /\ execucao' = SemExecucao
    /\ UNCHANGED df_base

\* "Voltar para Etapa 1", lines 557-558.
VoltarEtapa1 ==
    /\ current_step = 2
    /\ selecionadas_full(Sessao) /= <<>>
    /\ Grava(Etapa3Grupos(go_to_step(Etapa2Fixar(Sessao, 0), 1), 0, "Sem grupo", FALSE), widgets)
    /\ relatorio' = RelatorioEtapa2(Etapa2Fixar(Sessao, 0))
    /\ execucao' = SemExecucao
    /\ UNCHANGED df_base

\* "Confirmar e ir para agrupamento (Etapa 3)"; the Step 3 block runs in
\* the same execution.
ConfirmarEtapa2 ==
    /\ current_step = 2
    /\ selecionadas_full(Sessao) /= <<>>
    /\ Grava(Etapa3Grupos(ConfirmarClique(Etapa2Fixar(Sessao, 0)), 0, "Sem grupo", FALSE), widgets)
    /\ relatorio' = RelatorioEtapa2(Etapa2Fixar(Sessao, 0))
    /\ execucao' = SemExecucao
    /\ UNCHANGED df_base

\* An execution of the Step 3 block in which one of its widgets was used:
\* "rid", "rotulo" for a group select box, "alternar" for the 'singles'
\* toggle, "w" the values the other widgets now hold.
UsoEtapa3(rid, rotulo, alternar, w) ==
    /\ Etapa3Visivel(Sessao)
    /\ Grava(Etapa3Grupos(Sessao, rid, rotulo, alternar), w)
    /\ relatorio' = NaoMostrado
    /\ execucao' = SemExecucao
    /\ UNCHANGED df_base

\* A choice in the group select box of a fixed row shown in Step 3.
SelecionarGrupo(rid, rotulo) ==
    /\ rid \in Range(DfFixas(Sessao))
    /\ UsoEtapa3(rid, rotulo, FALSE, widgets)

\* A click on the toggle "Fixas 'Sem grupo' sao obrigatorias ...".
AlternarSingles ==
    /\ TRUE
    /\ UsoEtapa3(0, "Sem grupo", TRUE, widgets)

\* "Numero de disciplinas (0 = tamanhos variados)".
InformarAlvoNumDisciplinas(n) ==
    /\ n /= widgets.alvo_num_disciplinas
    /\ UsoEtapa3(0, "Sem grupo", FALSE, [widgets EXCEPT !.alvo_num_disciplinas = n])

\* "Dias totais na semana".
EscolherAlvoQtdDias(d) ==
    /\ d /= widgets.alvo_qtd_dias
    /\ UsoEtapa3(0, "Sem grupo", FALSE, [widgets EXCEPT !.alvo_qtd_dias = d])

\* "Turnos de preferencia (usados no score)".
EscolherTurnosPref(t) ==
    /\ t /= widgets.turnos_pref
    /\ UsoEtapa3(0, "Sem grupo", FALSE, [widgets EXCEPT !.turnos_pref = t])

\* "Incluir grupos A/B/C juntos (AND)".
AlternarJuntos ==
    /\ TRUE
    /\ UsoEtapa3(0, "Sem grupo", FALSE,
                 [widgets EXCEPT !.combinar_grupos_juntos = ~widgets.combinar_grupos_juntos])

\* "Gerar combinacoes" with the values the Step 3 widgets hold.  The two
\* buttons of lines 793-803 are drawn only inside this execution; a click
\* on one starts an execution in which "gerar" is false and they are not
\* reached, so they have no action.
Gerar ==
    /\ Etapa3Visivel(Sessao)
    /\ Grava(Etapa3Grupos(Sessao, 0, "Sem grupo", FALSE), widgets)
    /\ relatorio' = NaoMostrado
    /\ execucao' = GerarClique(Sessao, Etapa3Grupos(Sessao, 0, "Sem grupo", FALSE),
                               widgets.alvo_num_disciplinas, widgets.alvo_qtd_dias,
                               widgets.turnos_pref, widgets.combinar_grupos_juntos)
    /\ UNCHANGED df_base

\* The values entered in the Step 3 widgets.
OpcoesAlvo == 0..MaxAlvo
DiasEscolhidos == {Qualquer, 2, 3}
TurnosEscolhidos == {{}, {"Tarde"}}

\* The rows the sidebar filters leave visible: all of them, or a single one.
Visiveis == {Ids} \cup {{i} : i \in Ids}

Init ==
    /\ df_base = TabelaFluxo
    /\ current_step = SessaoInicial.current_step
    /\ selecionados_ids = SessaoInicial.selecionados_ids
    /\ fixos_ids = SessaoInicial.fixos_ids
    /\ confirmado = SessaoInicial.confirmado
    /\ mapa_grupos_fixas = SessaoInicial.mapa_grupos_fixas
    /\ singles_sao_obrigatorias = SessaoInicial.singles_sao_obrigatorias
    /\ widgets = WidgetsPadrao
    /\ relatorio = NaoMostrado
    /\ execucao = SemExecucao

Next ==
    \/ \E vis \in Visiveis : SelecionarTodosVisiveis(vis)
    \/ \E vis \in Visiveis : LimparSelecaoVisiveis(vis)
    \/ \E vis \in Visiveis : \E marc \in SUBSET vis : AplicarSelecao(vis, marc)
    \/ ProximaEtapa
    \/ ReiniciarFluxo
    \/ \E rid \in Ids : Fixar(rid)
    \/ VoltarEtapa1
    \/ ConfirmarEtapa2
    \/ \E rid \in Ids : \E rotulo \in Range(grupos_rotulos) : SelecionarGrupo(rid, rotulo)
    \/ AlternarSingles
    \/ \E n \in OpcoesAlvo : InformarAlvoNumDisciplinas(n)
    \/ \E d \in DiasEscolhidos : EscolherAlvoQtdDias(d)
    \/ \E t \in TurnosEscolhidos : EscolherTurnosPref(t)
    \/ AlternarJuntos
    \/ Gerar

Spec == Init /\ [][Next]_vars

(***************************************************************************)
(* The generation alone, on the four-offer table.  Every initial state is  *)
(* a session in Step 3 that the actions above reach from the start: all    *)
(* offers selected in Step 1, up to three of them fixed in Step 2, the     *)
(* selection confirmed, and then a group chosen for each fixed offer and   *)
(* the other Step 3 widgets set.                                           *)
(***************************************************************************)
MaxFixas == 3

InitMotor ==
    /\ df_base = TabelaMotor
    /\ current_step = 3
    /\ confirmado = TRUE
    /\ selecionados_ids = 1..Len(TabelaMotor)
    /\ fixos_ids \in {F \in SUBSET (1..Len(TabelaMotor)) : Cardinality(F) <= MaxFixas}
    /\ mapa_grupos_fixas \in [fixos_ids -> Range(grupos_rotulos)]
    /\ singles_sao_obrigatorias \in BOOLEAN
    /\ widgets \in [alvo_num_disciplinas : OpcoesAlvo, alvo_qtd_dias : DiasEscolhidos,
                    turnos_pref : TurnosEscolhidos, combinar_grupos_juntos : BOOLEAN]
    /\ relatorio = NaoMostrado
    /\ execucao = SemExecucao

NextMotor == Gerar

SpecMotor == InitMotor /\ [][NextMotor]_vars

(***************************************************************************)
(* The generation alone, on the three-offer table with the empty CURSO     *)
(* cells: again every initial state is a Step 3 session reached by         *)
(* selecting all offers, fixing some, confirming and setting the widgets.  *)
(***************************************************************************)
InitPontuacao ==
    /\ df_base = TabelaPontuacao
    /\ current_step = 3
    /\ confirmado = TRUE
    /\ selecionados_ids = 1..Len(TabelaPontuacao)
    /\ fixos_ids \in {F \in SUBSET (1..Len(TabelaPontuacao)) : Cardinality(F) <= MaxFixas}
    /\ mapa_grupos_fixas \in [fixos_ids -> Range(grupos_rotulos)]
    /\ singles_sao_obrigatorias \in BOOLEAN
    /\ widgets \in [alvo_num_disciplinas : OpcoesAlvo, alvo_qtd_dias : DiasEscolhidos,
                    turnos_pref : TurnosEscolhidos, combinar_grupos_juntos : BOOLEAN]
    /\ relatorio = NaoMostrado
    /\ execucao = SemExecucao

NextPontuacao == Gerar

SpecPontuacao == InitPontuacao /\ [][NextPontuacao]_vars

(***************************************************************************)
(* Vocabulary of the properties.                                           *)
(***************************************************************************)
\* The per-scenario results of the last execution, when it generated.
Resultados == IF execucao.gerou THEN execucao.resultados ELSE <<>>

\* The intervals of a set of rows: (row, position) pairs.
Intervalos(linhas) ==
    UNION {{<<i, k>> : k \in DOMAIN df_base[i].horarios_obj} : i \in linhas}

IntervaloDe(p) == df_base[p[1]].horarios_obj[p[2]]

\* Two intervals overlap: same weekday, and each starts before the other ends.
overlaps(a, b) == a.dia = b.dia /\ a.inicio < b.fim /\ b.inicio < a.fim

\* The unordered pairs of distinct intervals of a set of rows that overlap.
ParesSobrepostos(linhas) ==
    {{pq[1], pq[2]} : pq \in {x \in Intervalos(linhas) \X Intervalos(linhas) :
                                 /\ x[1] /= x[2]
                                 /\ overlaps(IntervaloDe(x[1]), IntervaloDe(x[2]))}}

\* The shifts covered by a set of rows.
TurnosCobertos(linhas) == UNION {df_base[i].TURNOS : i \in linhas}

(***************************************************************************)
(* C1.  For every scenario and every combination in its valid list, no two *)
(* intervals of the combination's sections overlap (whether of different   *)
(* sections or of the same section), and the shifts covered are exactly    *)
(* {Manha, Tarde} or exactly {Tarde, Noite}.                               *)
(*                                                                         *)
(* Fails: check_conflito returns "no conflict" for any dataframe of fewer  *)
(* than two rows (line 240), so a one-section combination whose own two    *)
(* intervals overlap is accepted.                                          *)
(***************************************************************************)
C1_validas_sem_sobreposicao ==
    \A c \in DOMAIN Resultados :
        \A v \in DOMAIN Resultados[c].todas_validas_sorted :
            LET linhas == Range(Resultados[c].todas_validas_sorted[v])
            IN  /\ ParesSobrepostos(linhas) = {}
                /\ TurnosCobertos(linhas) \in {{"Manha", "Tarde"}, {"Tarde", "Noite"}}

(***************************************************************************)
(* C2.  For every scenario of a generation run, every combination in its   *)
(* valid list contains every section id of the scenario's required set.    *)
(*                                                                         *)
(* Fails: mapa_grupos_fixas keeps the ids of fixed sections deselected     *)
(* after the Step 2 confirmation; they enter the required set (lines       *)
(* 643-647) and are dropped only when it is turned into rows (line 702).   *)
(***************************************************************************)
C2_validas_contem_obrigatorias ==
    \A c \in DOMAIN Resultados :
        \A v \in DOMAIN Resultados[c].todas_validas_sorted :
            execucao.cenarios[c] \subseteq Range(Resultados[c].todas_validas_sorted[v])

(***************************************************************************)
(* C3.  The scenario list built at generation is exactly: one scenario     *)
(* with empty required set when no section is fixed; otherwise, with AND   *)
(* semantics, one scenario whose required set is the union of the          *)
(* non-empty buckets A/B/C plus the singles iff singles are mandatory;     *)
(* otherwise one scenario per non-empty bucket, each that bucket plus the  *)
(* singles iff singles are mandatory, or, when every bucket is empty, one  *)
(* scenario equal to the singles if they are mandatory, empty otherwise.   *)
(***************************************************************************)
BaldeC3(g) == {rid \in DOMAIN mapa_grupos_fixas : mapa_grupos_fixas[rid] = g}

CenariosEsperadosC3 ==
    LET letras    == <<"Grupo A", "Grupo B", "Grupo C">>
        naoVazios == SelectSeq(letras, LAMBDA g : BaldeC3(g) /= {})
        avulsas   == IF singles_sao_obrigatorias THEN BaldeC3("Sem grupo") ELSE {}
    IN  IF execucao.fixed_ids_set = {} THEN << {} >>
        ELSE IF execucao.combinar_grupos_juntos
             THEN << BaldeC3("Grupo A") \cup BaldeC3("Grupo B") \cup BaldeC3("Grupo C")
                     \cup avulsas >>
        ELSE IF naoVazios /= <<>>
             THEN [i \in DOMAIN naoVazios |-> BaldeC3(naoVazios[i]) \cup avulsas]
        ELSE << avulsas >>

C3_lista_de_cenarios ==
    execucao.gerou => execucao.cenarios = CenariosEsperadosC3

\* A run with OR semantics over two or more non-empty buckets whose
\* scenarios each carry the mandatory singles.
C3_testemunha ==
    /\ execucao.gerou
    /\ ~execucao.combinar_grupos_juntos
    /\ Len(execucao.cenarios) >= 2
    /\ singles_sao_obrigatorias
    /\ BaldeC3("Sem grupo") /= {}

(***************************************************************************)
(* C4.  The conflict check over a set of sections returns (false, [])      *)
(* when the sections hold fewer than two intervals in total; otherwise it  *)
(* returns true exactly when some unordered pair of flattened intervals    *)
(* overlaps, pairs of the same section included, with one record per       *)
(* overlapping pair.  Read on the Step 2 report of the selection.          *)
(*                                                                         *)
(* Fails: the early return of line 240 counts rows, not intervals; one     *)
(* selected section with two overlapping intervals is reported free of     *)
(* conflicts.                                                              *)
(***************************************************************************)
C4_relatorio_de_conflitos ==
    relatorio.mostrado =>
        LET linhas == selecionados_ids
        IN  IF Cardinality(Intervalos(linhas)) < 2
            THEN ~relatorio.tem_conflito /\ relatorio.conflitos = <<>>
            ELSE /\ relatorio.tem_conflito = (ParesSobrepostos(linhas) /= {})
                 /\ Len(relatorio.conflitos) = Cardinality(ParesSobrepostos(linhas))

(***************************************************************************)
(* C5.  For a scenario whose enumeration is not stopped by the cap: with   *)
(* target size 0 the generated combinations are exactly the subsets S of   *)
(* the pool with required <= S and max(1, |required|) <= |S| <= |pool|;    *)
(* with a positive target size >= |required| they are exactly the subsets  *)
(* S with required <= S and |S| = target size; each generated once.        *)
(*                                                                         *)
(* Fails: a required id that is no longer in the pool (see C2) is dropped  *)
(* by line 702, and the enumeration runs over the remaining required ids.  *)
(***************************************************************************)
SubconjuntosPedidos(pool, required, alvo) ==
    {S \in SUBSET pool :
        /\ required \subseteq S
        /\ IF alvo = 0
           THEN Max(1, Cardinality(required)) <= Cardinality(S)
           ELSE Cardinality(S) = alvo}

C5_combinacoes_geradas ==
    \A c \in DOMAIN Resultados :
        LET r        == Resultados[c]
            required == execucao.cenarios[c]
            alvo     == execucao.alvo_num_disciplinas
            pool     == Range(execucao.base_df)
        IN  (/\ r.combinacoes_geradas < MAX_COMBINACOES
             /\ (alvo = 0 \/ alvo >= Cardinality(required)))
            => /\ {Range(r.geradas[i]) : i \in DOMAIN r.geradas}
                      = SubconjuntosPedidos(pool, required, alvo)
               /\ Len(r.geradas) = Cardinality(SubconjuntosPedidos(pool, required, alvo))
               /\ \A i \in DOMAIN r.geradas :
                      Cardinality(Range(r.geradas[i])) = Len(r.geradas[i])

(***************************************************************************)
(* C6.  When the target size is positive, every combination in every       *)
(* scenario's valid list has exactly that many sections.                   *)
(***************************************************************************)
C6_tamanho_exato ==
    (execucao.gerou /\ execucao.alvo_num_disciplinas > 0) =>
        \A c \in DOMAIN Resultados :
            \A v \in DOMAIN Resultados[c].todas_validas_sorted :
                LET combo == Resultados[c].todas_validas_sorted[v]
                IN  /\ Len(combo) = execucao.alvo_num_disciplinas
                    /\ Cardinality(Range(combo)) = execucao.alvo_num_disciplinas

\* A run with target size 2 over a pool of more than two sections in which
\* some scenario has a valid combination.
C6_testemunha ==
    /\ execucao.gerou
    /\ execucao.alvo_num_disciplinas = 2
    /\ Len(execucao.base_df) > 2
    /\ \E c \in DOMAIN Resultados : Resultados[c].todas_validas_sorted /= <<>>

(***************************************************************************)
(* C7.  When the target size is positive and smaller than the size of a    *)
(* scenario's required set, that scenario generates no combination and is  *)
(* reported as a size conflict; the scenarios of the run that are not in   *)
(* that case are enumerated and are not reported as a size conflict.       *)
(*                                                                         *)
(* Fails: the guard of line 707 compares the target with len(obrig_idx),   *)
(* the required ids still in the pool, not with the required set (see C2). *)
(***************************************************************************)
C7_alvo_menor_que_obrigatorias ==
    \A c \in DOMAIN Resultados :
        LET r    == Resultados[c]
            alvo == execucao.alvo_num_disciplinas
        IN  IF alvo > 0 /\ alvo < Cardinality(execucao.cenarios[c])
            THEN /\ r.combinacoes_geradas = 0
                 /\ r.geradas = <<>>
                 /\ r.mensagem.tipo = "warning"
            ELSE r.mensagem.tipo /= "warning"

(***************************************************************************)
(* C8.  In every scenario the number of combinations generated never       *)
(* exceeds the cap: enumeration stops right after the combination that     *)
(* brings the scenario's counter to the cap, in the inner subset loop and  *)
(* in the outer size loop, and the counter starts from zero for each       *)
(* scenario, so a scenario that reaches the cap does not shorten the       *)
(* enumeration of another.  Each scenario therefore generates the smaller  *)
(* of the cap and the number of its own candidates.                        *)
(***************************************************************************)
\* The candidates of scenario c: the subsets asked of the enumeration over
\* the required ids that are in the pool.
Candidatas(c) ==
    LET pool == Range(execucao.base_df)
    IN  SubconjuntosPedidos(pool, execucao.cenarios[c] \cap pool,
                            execucao.alvo_num_disciplinas)

C8_limite_por_cenario ==
    \A c \in DOMAIN Resultados :
        LET r == Resultados[c]
        IN  /\ r.combinacoes_geradas <= MAX_COMBINACOES
            /\ r.combinacoes_geradas = Len(r.geradas)
            /\ Len(r.geradas) = Min(MAX_COMBINACOES, Cardinality(Candidatas(c)))

\* A run in which one scenario is cut at the cap with candidates left over
\* and another scenario of the same run enumerates all of its candidates.
C8_testemunha ==
    /\ execucao.gerou
    /\ \E c1 \in DOMAIN Resultados, c2 \in DOMAIN Resultados :
          /\ Resultados[c1].combinacoes_geradas = MAX_COMBINACOES
          /\ Cardinality(Candidatas(c1)) > MAX_COMBINACOES
          /\ Resultados[c2].combinacoes_geradas > 0
          /\ Resultados[c2].combinacoes_geradas < MAX_COMBINACOES
          /\ Resultados[c2].combinacoes_geradas = Cardinality(Candidatas(c2))

(***************************************************************************)
(* C9.  A scenario whose enumeration stops because the cap was reached is  *)
(* reported as truncated, and a scenario whose enumeration ran to          *)
(* exhaustion is reported as not truncated, so the two outcomes can be     *)
(* told apart: no truncated scenario and exhaustive scenario of a run      *)
(* carry the same report.                                                  *)
(*                                                                         *)
(* Fails: nothing in lines 745-763 depends on combinacoes_geradas; the     *)
(* report is the message of lines 757-760 and the lists, and the message   *)
(* names the cap whether or not it was reached.                            *)
(***************************************************************************)
\* What a scenario's result shows: the message and the two lists.
Relato(r) == [mensagem |-> r.mensagem,
              todas_validas_sorted |-> r.todas_validas_sorted,
              sugestoes |-> r.sugestoes]

\* The enumeration was cut by the cap with candidates left over.
Truncado(c) ==
    /\ Resultados[c].combinacoes_geradas >= MAX_COMBINACOES
    /\ Len(Resultados[c].geradas) < Cardinality(Candidatas(c))

\* The enumeration ran through all of its candidates.
Exaustivo(c) ==
    /\ Resultados[c].mensagem.tipo /= "warning"
    /\ Resultados[c].combinacoes_geradas < MAX_COMBINACOES

C9_truncamento_relatado ==
    \A c1 \in DOMAIN Resultados, c2 \in DOMAIN Resultados :
        (Truncado(c1) /\ Exaustivo(c2)) => Relato(Resultados[c1]) /= Relato(Resultados[c2])

(***************************************************************************)
(* C10.  Each scenario's valid list is ordered by score descending, two    *)
(* valid combinations of equal score appear in the order of generation     *)
(* (sizes ascending, then lexicographic over the pool order), and the      *)
(* suggestions are the first min(4, n) entries of that list.               *)
(***************************************************************************)
\* x is generated before y: smaller first, and for equal sizes the one
\* holding the first row, in pool order, on which they differ.
GeradaAntes(x, y) ==
    \/ Cardinality(x) < Cardinality(y)
    \/ /\ Cardinality(x) = Cardinality(y)
       /\ \E i \in x \ y : \A j \in (x \ y) \cup (y \ x) : i <= j

PontuacaoC10(combo) ==
    score_combo(combo, execucao.turnos_pref, execucao.alvo_qtd_dias)

C10_ordem_e_sugestoes ==
    \A c \in DOMAIN Resultados :
        LET r == Resultados[c]
            L == r.todas_validas_sorted
        IN  /\ Len(L) = Len(r.todas_validas)
            /\ Range(L) = Range(r.todas_validas)
            /\ \A i \in DOMAIN L, j \in DOMAIN L :
                  i < j =>
                     /\ PontuacaoC10(L[i]) >= PontuacaoC10(L[j])
                     /\ PontuacaoC10(L[i]) = PontuacaoC10(L[j])
                           => GeradaAntes(Range(L[i]), Range(L[j]))
            /\ r.sugestoes = SubSeq(L, 1, Min(4, Len(L)))

\* A scenario with more than four valid combinations, among them two of
\* equal score and two of different scores.
C10_testemunha ==
    /\ execucao.gerou
    /\ \E c \in DOMAIN Resultados :
          LET L == Resultados[c].todas_validas_sorted
          IN  /\ Len(L) > 4
              /\ Len(Resultados[c].sugestoes) = 4
              /\ \E i \in DOMAIN L, j \in DOMAIN L :
                    i < j /\ PontuacaoC10(L[i]) = PontuacaoC10(L[j])
              /\ \E i \in DOMAIN L, j \in DOMAIN L :
                    i < j /\ PontuacaoC10(L[i]) > PontuacaoC10(L[j])

(***************************************************************************)
(* C11.  The score of a combination is the number of its sections whose    *)
(* shifts meet the preferred shifts (0 when none is preferred), plus 2     *)
(* when a target day count in {2,3,4} is asked and the combination covers  *)
(* exactly that many weekdays, plus, over the groups of sections sharing   *)
(* (program, course), the number of distinct class labels of the group     *)
(* minus one; sections whose program is absent are grouped like the        *)
(* others.  Read on the valid combinations the run ranks.                  *)
(*                                                                         *)
(* Fails: groupby(['CURSO', 'DISCIPLINA']) (line 306) drops the rows whose *)
(* CURSO is missing, so two classes of one course without program earn no  *)
(* point.                                                                  *)
(***************************************************************************)
\* The sum, over the (program, course) groups, of the distinct class labels
\* minus one: the distinct (program, course, class) triples less the groups.
ExtrasEsperadosC11(linhas) ==
    Cardinality({<<df_base[i].CURSO, df_base[i].DISCIPLINA, df_base[i].TURMA>> : i \in linhas})
    - Cardinality({<<df_base[i].CURSO, df_base[i].DISCIPLINA>> : i \in linhas})

PontuacaoEsperadaC11(linhas, preferidos, dias) ==
    (IF preferidos = {} THEN 0
     ELSE Cardinality({i \in linhas : df_base[i].TURNOS \cap preferidos /= {}}))
    + (IF dias \in {2, 3, 4}
          /\ Cardinality(UNION {df_base[i].DIAS : i \in linhas}) = dias
       THEN 2 ELSE 0)
    + ExtrasEsperadosC11(linhas)

C11_pontuacao ==
    \A c \in DOMAIN Resultados :
        \A v \in DOMAIN Resultados[c].todas_validas_sorted :
            LET combo == Resultados[c].todas_validas_sorted[v]
            IN  score_combo(combo, execucao.turnos_pref, execucao.alvo_qtd_dias)
                = PontuacaoEsperadaC11(Range(combo), execucao.turnos_pref,
                                       execucao.alvo_qtd_dias)

(***************************************************************************)
(* C12.  A generation request whose target size exceeds the pool size is   *)
(* rejected as invalid input before any combination is enumerated; it is   *)
(* never answered with an ordinary result, empty or not.                   *)
(*                                                                         *)
(* Fails: nothing compares the target with the pool (the number input of   *)
(* lines 578-581 allows 0..12 whatever the pool is); the scenario loop     *)
(* runs, finds no subset of that size, and line 758 reports the ordinary   *)
(* "no valid combination" message.                                         *)
(***************************************************************************)
C12_alvo_maior_que_base_rejeitado ==
    (execucao.gerou /\ execucao.alvo_num_disciplinas > Len(execucao.base_df)) =>
        \A c \in DOMAIN Resultados :
            /\ Resultados[c].combinacoes_geradas = 0
            /\ Resultados[c].mensagem.tipo \notin {"info", "success"}

(***************************************************************************)
(* C13.  Two intervals overlap if and only if they are on the same weekday *)
(* and each starts before the other ends; intervals on different weekdays  *)
(* never overlap, back-to-back intervals of one weekday do not overlap,    *)
(* and the test is symmetric.  Read on every pair of intervals of the      *)
(* offer table and on the conflict verdict of every generated combination  *)
(* of two or more offers.                                                  *)
(***************************************************************************)
C13_teste_de_sobreposicao ==
    /\ \A p \in Intervalos(Ids), q \in Intervalos(Ids) :
          LET a == IntervaloDe(p)
              b == IntervaloDe(q)
          IN  /\ Sobrepoe(a, b) = (a.dia = b.dia /\ a.inicio < b.fim /\ b.inicio < a.fim)
              /\ Sobrepoe(a, b) = Sobrepoe(b, a)
              /\ a.dia /= b.dia => ~Sobrepoe(a, b)
              /\ (a.dia = b.dia /\ a.fim = b.inicio) => ~Sobrepoe(a, b)
    /\ \A c \in DOMAIN Resultados :
          \A g \in DOMAIN Resultados[c].geradas :
              LET combo == Resultados[c].geradas[g]
                  r     == check_conflito(combo)
                  pares == ParesSobrepostos(Range(combo))
              IN  Len(combo) >= 2 =>
                     /\ r.tem_conflito = (pares /= {})
                     /\ Len(r.conflitos) = Cardinality(pares)

\* A run that ranks a combination holding two back-to-back intervals and
\* generates another in which two intervals overlap.
C13_testemunha ==
    /\ execucao.gerou
    /\ \E c \in DOMAIN Resultados :
          /\ \E v \in DOMAIN Resultados[c].todas_validas_sorted :
                \E p \in Intervalos(Range(Resultados[c].todas_validas_sorted[v])),
                   q \in Intervalos(Range(Resultados[c].todas_validas_sorted[v])) :
                      /\ IntervaloDe(p).dia = IntervaloDe(q).dia
                      /\ IntervaloDe(p).fim = IntervaloDe(q).inicio
          /\ \E g \in DOMAIN Resultados[c].geradas :
                /\ Len(Resultados[c].geradas[g]) >= 2
                /\ check_conflito(Resultados[c].geradas[g]).tem_conflito

(***************************************************************************)
(* C14.  When a target day count in {2,3,4} is asked, every combination in *)
(* every scenario's valid list covers exactly that many distinct weekdays; *)
(* when none is asked ("Qualquer"), no combination is discarded for the    *)
(* days it covers: every generated combination left out of the valid list  *)
(* has overlapping intervals or a shift set that is not allowed.           *)
(***************************************************************************)
DiasCobertos(linhas) == {IntervaloDe(p).dia : p \in Intervalos(linhas)}

TurnosPermitidos(linhas) ==
    TurnosCobertos(linhas) \in {{"Manha", "Tarde"}, {"Tarde", "Noite"}}

C14_regra_de_dias ==
    \A c \in DOMAIN Resultados :
        LET r == Resultados[c]
            d == execucao.alvo_qtd_dias
        IN  /\ d \in {2, 3, 4} =>
                  \A v \in DOMAIN r.todas_validas_sorted :
                      Cardinality(DiasCobertos(Range(r.todas_validas_sorted[v]))) = d
            /\ d = Qualquer =>
                  \A g \in DOMAIN r.geradas :
                      r.geradas[g] \notin Range(r.todas_validas_sorted) =>
                          \/ ParesSobrepostos(Range(r.geradas[g])) /= {}
                          \/ ~TurnosPermitidos(Range(r.geradas[g]))

\* A run with a target day count that ranks some combination and discards
\* another for its days alone.
C14_testemunha ==
    /\ execucao.gerou
    /\ execucao.alvo_qtd_dias \in {2, 3, 4}
    /\ \E c \in DOMAIN Resultados :
          /\ Resultados[c].todas_validas_sorted /= <<>>
          /\ \E g \in DOMAIN Resultados[c].geradas :
                /\ Resultados[c].geradas[g] \notin Range(Resultados[c].todas_validas_sorted)
                /\ ParesSobrepostos(Range(Resultados[c].geradas[g])) = {}
                /\ TurnosPermitidos(Range(Resultados[c].geradas[g]))

(***************************************************************************)
(* C15.  As stated: for every section that is fixed and still selected     *)
(* when the generation runs, at least one scenario of that run has the     *)
(* section in its required set, whatever the group assignment, the AND/OR  *)
(* toggle and the "singles are mandatory" toggle are.                      *)
(***************************************************************************)
FixasNaGeracao == execucao.fixed_ids_set \cap selecionados_ids

EmAlgumCenario(rid) == \E c \in DOMAIN execucao.cenarios : rid \in execucao.cenarios[c]

C16_fixas_dentro_da_selecao ==
    execucao.gerou => execucao.fixed_ids_set \subseteq selecionados_ids

\* A generation with a fixed section, run after a section fixed at the
\* confirmation was deselected in the Step 1 editor.
C16_testemunha ==
    /\ execucao.gerou
    /\ execucao.fixed_ids_set /= {}
    /\ \E rid \in DOMAIN mapa_grupos_fixas : rid \notin selecionados_ids

(***************************************************************************)
(* C17.  In every reachable session state current_step is 1, 2 or 3, and   *)
(* current_step = 3 implies confirmado; hence combinations are generated   *)
(* only after a Step 2 confirmation more recent than the last "Proxima     *)
(* etapa" or "Reiniciar fluxo": those two leave the session unconfirmed    *)
(* and out of Step 3, only the confirmation confirms it and enters Step 3, *)
(* and the generation runs only in a confirmed Step 3.                     *)
(***************************************************************************)
PassosC17 ==
    /\ current_step \in {1, 2, 3}
    /\ current_step = 3 => confirmado
    /\ execucao.gerou => (current_step = 3 /\ confirmado)

TransicoesC17 ==
    /\ ProximaEtapa => (~confirmado' /\ current_step' = 2)
    /\ ReiniciarFluxo => (~confirmado' /\ current_step' = 1)
    /\ (~confirmado /\ confirmado') => (current_step = 2 /\ current_step' = 3)
    /\ (current_step /= 3 /\ current_step' = 3) => (current_step = 2 /\ confirmado')
    /\ execucao'.gerou => (current_step = 3 /\ confirmado)

C17_geracao_so_apos_confirmar == []PassosC17 /\ [][TransicoesC17]_vars

\* A generation in Step 3 of a confirmed session.
C17_testemunha ==
    /\ execucao.gerou
    /\ current_step = 3
    /\ confirmado
    /\ selecionados_ids /= {}

(***************************************************************************)
(* C18.  In every run in which the generation executes, every id placed in *)
(* a scenario's required set is the id of a currently selected and         *)
(* currently fixed section, even when the selection was changed in the     *)
(* Step 1 editor after the Step 2 confirmation; no scenario is built from  *)
(* a group that holds only sections no longer in the pool.                 *)
(*                                                                         *)
(* Fails: grupos and singles are filled from every key of                  *)
(* mapa_grupos_fixas (lines 643-647); the keys of sections deselected      *)
(* after the confirmation are never removed (the select boxes of lines     *)
(* 611-620 only write the keys of the rows still shown).                   *)
(***************************************************************************)
C18_obrigatorias_selecionadas_e_fixas ==
    \A c \in DOMAIN Resultados :
        /\ execucao.cenarios[c] \subseteq (selecionados_ids \cap fixos_ids)
        /\ execucao.cenarios[c] /= {} =>
              execucao.cenarios[c] \cap Range(execucao.base_df) /= {}

(***************************************************************************)
(* C19.  Whenever the target day count is in {2,3,4}, every combination in *)
(* a scenario's valid list receives the +2 day-count bonus; so within one  *)
(* scenario the bonus is the same for all ranked combinations, and the     *)
(* ranking is the one the same valid list would have without the bonus.    *)
(***************************************************************************)
C19_bonus_de_dias_uniforme ==
    execucao.gerou /\ execucao.alvo_qtd_dias \in {2, 3, 4} =>
        \A c \in DOMAIN Resultados :
            LET r == Resultados[c]
            IN  /\ \A v \in DOMAIN r.todas_validas_sorted :
                      score_combo(r.todas_validas_sorted[v], execucao.turnos_pref,
                                  execucao.alvo_qtd_dias)
                      = score_combo(r.todas_validas_sorted[v], execucao.turnos_pref,
                                    Qualquer) + 2
                /\ r.todas_validas_sorted
                      = todas_validas_sorted(r.todas_validas, execucao.turnos_pref, Qualquer)

\* A run with a target day count in which a scenario ranks combinations of
\* different scores.
C19_testemunha ==
    /\ execucao.gerou
    /\ execucao.alvo_qtd_dias \in {2, 3, 4}
    /\ \E c \in DOMAIN Resultados :
          LET L == Resultados[c].todas_validas_sorted
          IN  \E i \in DOMAIN L, j \in DOMAIN L :
                 /\ i < j
                 /\ score_combo(L[i], execucao.turnos_pref, execucao.alvo_qtd_dias)
                       > score_combo(L[j], execucao.turnos_pref, execucao.alvo_qtd_dias)

=============================================================================
